---- MODULE Spec2Model ----
(***************************************************************************)
(* Model of the knex.raw demo: the query functions of index.js, the main   *)
(* entry point that awaits them one after another, and the create, update  *)
(* and delete functions of the README.  The database client and server are *)
(* modelled by what a round trip does to the tables and what it returns.   *)
(***************************************************************************)
EXTENDS Integers, Sequences, FiniteSets, TLC

VARIABLES
  version,      \* which main runs: "simple" (0-simple-demo/index.js) or "extended"
  schema,       \* table name -> set of its column names
  db,           \* table name -> sequence of rows (a row: column name -> value)
  nextId,       \* next value of the pets id sequence
  open,         \* the connection handle has not been destroyed
  destroyCalls, \* number of knex.destroy() calls made
  calls,        \* the invocations of query functions, in invocation order
  pc,           \* main: index of the statement of Program(version) to run next
  awaiting,     \* main: index in calls of the invocation it awaits, or 0
  locals,       \* main: the const bindings made so far (name -> value)
  console,      \* the console.log output, in order
  mainStatus,   \* "idle" | "running" | "fulfilled" | "rejected"
  mainErr       \* the failure main rejected with, or NoError

vars == <<version, schema, db, nextId, open, destroyCalls, calls, pc, awaiting,
          locals, console, mainStatus, mainErr>>

----------------------------------------------------------------------------
(* Bounds of the model *)

\* most rows of the pets table in an initial state
MaxPets == 2

----------------------------------------------------------------------------
(* Values *)

PetNames == {"Kora", "Tora"}
PetKinds == {"dog", "cat"}
OwnerNames == {"Ann Duong", "Reuben Ogbonna"}
FirstNames == {"James", "Toni"}
LastNames == {"Baldwin", "Morrison"}
CustomerNames == {"Ann", "Ben"}

\* JavaScript values held by locals, returned by functions and logged
Undefined == [type |-> "undefined", v |-> <<>>]
Array(rows) == [type |-> "array", v |-> rows]
Object(row) == [type |-> "object", v |-> <<row>>]

NoError == "none"
\* failures of the round trip that do not depend on the statement
NetErrors == {"ECONNREFUSED"}
UndefinedColumn == "42703"
BindingMismatch == "Expected bindings"
PoolDestroyed == "Unable to acquire a connection"

----------------------------------------------------------------------------
(* SQL statements: the parse of the SQL text of each template.  A value    *)
(* position holds either the placeholder ? or a literal.                   *)

Param == [ph |-> TRUE, v |-> "?"]
Lit(x) == [ph |-> FALSE, v |-> x]
Col(t, c) == [t |-> t, c |-> c]
Star == [t |-> "", c |-> "*"]
CountStar == [t |-> "", c |-> "COUNT(*)"]
Eq(col, val) == [col |-> col, val |-> val]
Join(table, left, right) == [table |-> table, left |-> left, right |-> right]

Select(columns, from, joins, where, groupBy) ==
  [cmd |-> "SELECT", columns |-> columns, from |-> from, joins |-> joins,
   where |-> where, groupBy |-> groupBy]
Insert(into, columns, values) ==
  [cmd |-> "INSERT", into |-> into, columns |-> columns, values |-> values]
Update(table, set, where) ==
  [cmd |-> "UPDATE", table |-> table, set |-> set, where |-> where]
Delete(from, where) ==
  [cmd |-> "DELETE", from |-> from, where |-> where]

----------------------------------------------------------------------------
(* knex.raw(sql, bindings): positional binding of the values to the ?s *)

Vals(conds) == [i \in 1..Len(conds) |-> conds[i].val]

\* the value positions of a statement, left to right in its text
SlotVals(sql) ==
  CASE sql.cmd = "SELECT" -> Vals(sql.where)
    [] sql.cmd = "INSERT" -> sql.values
    [] sql.cmd = "UPDATE" -> Vals(sql.set) \o Vals(sql.where)
    [] sql.cmd = "DELETE" -> Vals(sql.where)

ParamsIn(vs) == Cardinality({i \in 1..Len(vs) : vs[i].ph})

PlaceholderCount(sql) == ParamsIn(SlotVals(sql))

\* vs with its placeholders replaced by bindings[k+1], bindings[k+2], ...
BindVals(vs, bindings, k) ==
  [i \in 1..Len(vs) |->
     IF vs[i].ph THEN Lit(bindings[k + ParamsIn(SubSeq(vs, 1, i))]) ELSE vs[i]]

BindConds(conds, bindings, k) ==
  LET vs == BindVals(Vals(conds), bindings, k)
  IN  [i \in 1..Len(conds) |-> Eq(conds[i].col, vs[i])]

Bind(sql, bindings) ==
  CASE sql.cmd = "SELECT" ->
         [sql EXCEPT !.where = BindConds(sql.where, bindings, 0)]
    [] sql.cmd = "INSERT" ->
         [sql EXCEPT !.values = BindVals(sql.values, bindings, 0)]
    [] sql.cmd = "UPDATE" ->
         [sql EXCEPT !.set = BindConds(sql.set, bindings, 0),
                     !.where = BindConds(sql.where, bindings,
                                         ParamsIn(Vals(sql.set)))]
    [] sql.cmd = "DELETE" ->
         [sql EXCEPT !.where = BindConds(sql.where, bindings, 0)]

BindingsMatch(sql, bindings) == PlaceholderCount(sql) = Len(bindings)

----------------------------------------------------------------------------
(* The database server: what a statement returns and does to the tables *)

Range(s) == {s[i] : i \in 1..Len(s)}

RECURSIVE Concat(_)
Concat(ss) == IF ss = <<>> THEN <<>> ELSE Head(ss) \o Concat(Tail(ss))

RECURSIVE Dedup(_)
Dedup(s) ==
  IF s = <<>> THEN <<>>
  ELSE LET h == Head(s)
           Other(x) == x # h
       IN  <<h>> \o SelectSeq(Dedup(Tail(s)), Other)

\* the columns a statement names
ColumnRefs(sql) ==
  CASE sql.cmd = "SELECT" ->
         {c \in Range(sql.columns) : c.t # ""}
           \cup {j.left : j \in Range(sql.joins)}
           \cup {j.right : j \in Range(sql.joins)}
           \cup {w.col : w \in Range(sql.where)}
           \cup Range(sql.groupBy)
    [] sql.cmd = "INSERT" -> {Col(sql.into, c) : c \in Range(sql.columns)}
    [] sql.cmd = "UPDATE" ->
         {w.col : w \in Range(sql.set)} \cup {w.col : w \in Range(sql.where)}
    [] sql.cmd = "DELETE" -> {w.col : w \in Range(sql.where)}

\* every column the statement names exists
ColumnsExist(sql, sch) ==
  \A r \in ColumnRefs(sql) : r.t \in DOMAIN sch /\ r.c \in sch[r.t]

\* a row of the join: table name -> row of that table
ValueOf(jr, ref) == jr[ref.t][ref.c]

Holds(jr, conds) == \A w \in Range(conds) : ValueOf(jr, w.col) = w.val.v

JoinOne(jrs, j, d) ==
  LET On(jr) == ValueOf(jr, j.left) = ValueOf(jr, j.right)
  IN  Concat([i \in 1..Len(jrs) |->
                SelectSeq([k \in 1..Len(d[j.table]) |->
                             jrs[i] @@ (j.table :> d[j.table][k])], On)])

RECURSIVE JoinAll(_, _, _)
JoinAll(jrs, joins, d) ==
  IF joins = <<>> THEN jrs
  ELSE JoinAll(JoinOne(jrs, Head(joins), d), Tail(joins), d)

\* the output row of one joined row (or of one group, given its size)
Project(jr, sql, size) ==
  IF sql.columns = <<Star>> THEN jr[sql.from]
  ELSE [name \in {IF c = CountStar THEN "count" ELSE c.c : c \in Range(sql.columns)} |->
          IF name = "count" /\ CountStar \in Range(sql.columns)
          THEN ToString(size)   \* COUNT(*) is a bigint, which arrives as a string
          ELSE ValueOf(jr, CHOOSE c \in Range(sql.columns) : c.c = name)]

GroupKey(jr, sql) == [i \in 1..Len(sql.groupBy) |-> ValueOf(jr, sql.groupBy[i])]

SelectRows(sql, d) ==
  LET scan == [i \in 1..Len(d[sql.from]) |-> (sql.from :> d[sql.from][i])]
      Where(jr) == Holds(jr, sql.where)
      found == SelectSeq(JoinAll(scan, sql.joins, d), Where)
  IN  IF sql.groupBy = <<>>
      THEN [i \in 1..Len(found) |-> Project(found[i], sql, 1)]
      ELSE LET keys == Dedup([i \in 1..Len(found) |-> GroupKey(found[i], sql)])
               Group(key) == LET In(jr) == GroupKey(jr, sql) = key
                             IN  SelectSeq(found, In)
           IN  [i \in 1..Len(keys) |->
                  Project(Head(Group(keys[i])), sql, Len(Group(keys[i])))]

Null == "NULL"

InsertedRow(sql, sch, id) ==
  [c \in sch[sql.into] |->
     IF \E i \in 1..Len(sql.columns) : sql.columns[i] = c
     THEN sql.values[CHOOSE i \in 1..Len(sql.columns) : sql.columns[i] = c].v
     ELSE IF c = "id" THEN id ELSE Null]

Matches(t, row, conds) == Holds(t :> row, conds)

UpdatedRow(row, set) ==
  [c \in DOMAIN row |->
     IF \E i \in 1..Len(set) : set[i].col.c = c
     THEN set[CHOOSE i \in 1..Len(set) : set[i].col.c = c].val.v
     ELSE row[c]]

\* the rows a bound statement returns and the tables after it; INSERT, UPDATE
\* and DELETE carry RETURNING *
Execute(sql, d, sch, id) ==
  CASE sql.cmd = "SELECT" -> [rows |-> SelectRows(sql, d), db |-> d, nextId |-> id]
    [] sql.cmd = "INSERT" ->
         LET row == InsertedRow(sql, sch, id)
         IN  [rows |-> <<row>>,
              db |-> [d EXCEPT ![sql.into] = Append(@, row)],
              nextId |-> id + 1]
    [] sql.cmd = "UPDATE" ->
         LET Hit(row) == Matches(sql.table, row, sql.where)
             old == d[sql.table]
             new == [i \in 1..Len(old) |->
                       IF Hit(old[i]) THEN UpdatedRow(old[i], sql.set) ELSE old[i]]
             hits == {i \in 1..Len(old) : Hit(old[i])}
         IN  [rows |-> [k \in 1..Cardinality(hits) |->
                          new[CHOOSE i \in hits :
                                Cardinality({j \in hits : j < i}) = k - 1]],
              db |-> [d EXCEPT ![sql.table] = new],
              nextId |-> id]
    [] sql.cmd = "DELETE" ->
         LET Hit(row) == Matches(sql.from, row, sql.where)
             Keep(row) == ~Hit(row)
         IN  [rows |-> SelectSeq(d[sql.from], Hit),
              db |-> [d EXCEPT ![sql.from] = SelectSeq(@, Keep)],
              nextId |-> id]

----------------------------------------------------------------------------
(* The tables.  The pets table names the kind of a pet in one column: the  *)
(* queries of index.js call it type, the README's table and createPet call *)
(* it species.  Both schemas are initial states.                           *)

PetKindColumns == {"type", "species"}

Schema(kind) ==
  [pets |-> {"id", "name", kind, "owner_id"},
   people |-> {"id", "name"},
   authors |-> {"id", "first_name", "last_name"},
   books |-> {"id", "title", "published_year"},
   author_book |-> {"author_id", "book_id"},
   customers |-> {"id", "name"},
   orders |-> {"id", "customer_id", "product_id"},
   products |-> {"id", "name", "price"}]

PetRow(kindCol, id, name, kind, owner) ==
  [c \in {"id", "name", kindCol, "owner_id"} |->
     CASE c = "id" -> id
       [] c = "name" -> name
       [] c = "owner_id" -> owner
       [] OTHER -> kind]

PersonRow(id, name) == [c \in {"id", "name"} |-> IF c = "id" THEN id ELSE name]

\* the people tables of the initial states: ids are 1..n
PeopleTables ==
  {<<>>,
   <<PersonRow(1, "Ann Duong")>>,
   <<PersonRow(1, "Ann Duong"), PersonRow(2, "Reuben Ogbonna")>>,
   <<PersonRow(1, "Reuben Ogbonna"), PersonRow(2, "Ann Duong")>>,
   <<PersonRow(1, "Ann Duong"), PersonRow(2, "Ann Duong")>>}

\* the pets tables of the initial states: ids are 1..n, every owner is a person
PetsTables(kindCol, people) ==
  UNION {{[i \in 1..n |-> PetRow(kindCol, i, f[i][1], f[i][2], f[i][3])] :
            f \in [1..n -> PetNames \X PetKinds \X (1..Len(people))]} :
         n \in 0..MaxPets}

Authors ==
  <<[id |-> 1, first_name |-> "James", last_name |-> "Baldwin"],
    [id |-> 2, first_name |-> "Toni", last_name |-> "Morrison"]>>
Books ==
  <<[id |-> 1, title |-> "Giovanni's Room", published_year |-> 1956],
    [id |-> 2, title |-> "Beloved", published_year |-> 1987],
    [id |-> 3, title |-> "Another Country", published_year |-> 1962]>>
AuthorBook ==
  <<[author_id |-> 1, book_id |-> 1], [author_id |-> 2, book_id |-> 2],
    [author_id |-> 1, book_id |-> 3]>>
Customers == <<[id |-> 1, name |-> "Ann"], [id |-> 2, name |-> "Ben"]>>
Products ==
  <<[id |-> 1, name |-> "pen", price |-> 2], [id |-> 2, name |-> "ink", price |-> 5]>>
Orders ==
  <<[id |-> 1, customer_id |-> 1, product_id |-> 1],
    [id |-> 2, customer_id |-> 1, product_id |-> 1],
    [id |-> 3, customer_id |-> 1, product_id |-> 2],
    [id |-> 4, customer_id |-> 2, product_id |-> 2]>>

Database(pets, people) ==
  [pets |-> pets, people |-> people, authors |-> Authors, books |-> Books,
   author_book |-> AuthorBook, customers |-> Customers, orders |-> Orders,
   products |-> Products]

----------------------------------------------------------------------------
(* The query functions: the statement each one submits, the values it      *)
(* passes with it, what it returns and whether it logs rows[0]             *)

Query(sql, bindings, returns, logs) ==
  [sql |-> sql, bindings |-> bindings, returns |-> returns, logs |-> logs]

\* a faulty getPets: the statement reads the other table
getPetsFromPeople ==
  Query(Select(<<Star>>, "people", <<>>, <<>>, <<>>), <<>>, "rows", FALSE)

getPets ==
  Query(Select(<<Star>>, "pets", <<>>, <<>>, <<>>), <<>>, "rows", FALSE)

getPeople ==
  Query(Select(<<Star>>, "pets", <<>>, <<>>, <<>>), <<>>, "rows", FALSE)

\* a faulty getPetsByOwnerNameAndType: the two values are passed in the other order
getPetsByTypeAndOwnerName(ownerName, type) ==
  Query(Select(<<Col("pets", "name"), Col("pets", "id")>>, "pets",
               <<Join("people", Col("pets", "owner_id"), Col("people", "id"))>>,
               <<Eq(Col("people", "name"), Param), Eq(Col("pets", "type"), Param)>>,
               <<>>),
        <<type, ownerName>>, "rows", FALSE)

getPetsByOwnerNameAndType(ownerName, type) ==
  Query(Select(<<Col("pets", "name"), Col("pets", "id")>>, "pets",
               <<Join("people", Col("pets", "owner_id"), Col("people", "id"))>>,
               <<Eq(Col("people", "name"), Param), Eq(Col("pets", "type"), Param)>>,
               <<>>),
        <<ownerName, type>>, "rows", FALSE)

getBooksByAuthor(firstName, lastName) ==
  Query(Select(<<Col("books", "title"), Col("books", "published_year"),
                 Col("authors", "first_name"), Col("authors", "last_name")>>,
               "authors",
               <<Join("author_book", Col("author_book", "author_id"), Col("authors", "id")),
                 Join("books", Col("author_book", "book_id"), Col("books", "id"))>>,
               <<Eq(Col("authors", "first_name"), Param),
                 Eq(Col("authors", "last_name"), Param)>>,
               <<>>),
        <<firstName, lastName>>, "rows", FALSE)

getProductsBoughtByCustomer(name) ==
  Query(Select(<<CountStar, Col("products", "name"), Col("products", "price")>>,
               "customers",
               <<Join("orders", Col("orders", "customer_id"), Col("customers", "id")),
                 Join("products", Col("orders", "product_id"), Col("products", "id"))>>,
               <<Eq(Col("customers", "name"), Param)>>,
               <<Col("products", "name"), Col("products", "price")>>),
        <<name>>, "rows", FALSE)

\* a faulty createPet: name and species are passed in the other order
createPetSpeciesFirst(name, species, ownerId) ==
  Query(Insert("pets", <<"name", "species", "owner_id">>, <<Param, Param, Param>>),
        <<species, name, ownerId>>, "rows[0]", FALSE)

createPet(name, species, ownerId) ==
  Query(Insert("pets", <<"name", "species", "owner_id">>, <<Param, Param, Param>>),
        <<name, species, ownerId>>, "rows[0]", FALSE)

\* a faulty updatePetNameByName: the values are passed in the order of the
\* parameters
updatePetNameOldFirst(oldName, newName) ==
  Query(Update("pets", <<Eq(Col("pets", "name"), Param)>>,
               <<Eq(Col("pets", "name"), Param)>>),
        <<oldName, newName>>, "undefined", TRUE)

updatePetNameByName(oldName, newName) ==
  Query(Update("pets", <<Eq(Col("pets", "name"), Param)>>,
               <<Eq(Col("pets", "name"), Param)>>),
        <<newName, oldName>>, "undefined", TRUE)

deletePetByName(name) ==
  Query(Delete("pets", <<Eq(Col("pets", "name"), Param)>>),
        <<name>>, "undefined", TRUE)

Functions ==
  {"getPets", "getPeople", "getPetsByOwnerNameAndType", "getBooksByAuthor",
   "getProductsBoughtByCustomer", "createPet", "updatePetNameByName",
   "deletePetByName"}

\* the body of function fn applied to args
Body(fn, args) ==
  CASE fn = "getPets" -> getPets
    [] fn = "getPeople" -> getPeople
    [] fn = "getPetsByOwnerNameAndType" -> getPetsByOwnerNameAndType(args[1], args[2])
    [] fn = "getBooksByAuthor" -> getBooksByAuthor(args[1], args[2])
    [] fn = "getProductsBoughtByCustomer" -> getProductsBoughtByCustomer(args[1])
    [] fn = "createPet" -> createPet(args[1], args[2], args[3])
    [] fn = "updatePetNameByName" -> updatePetNameByName(args[1], args[2])
    [] fn = "deletePetByName" -> deletePetByName(args[1])

\* rows[0]
First(rows) == IF rows = <<>> THEN Undefined ELSE Object(rows[1])

ReturnValue(returns, rows) ==
  CASE returns = "rows" -> Array(rows)
    [] returns = "rows[0]" -> First(rows)
    [] returns = "undefined" -> Undefined

\* an invocation: the function has run up to its await of knex.raw
NewCall(fn, args) ==
  LET q == Body(fn, args)
  IN  [fn |-> fn, args |-> args, sql |-> q.sql, bindings |-> q.bindings,
       returns |-> q.returns, logs |-> q.logs,
       submits |-> 1, trip |-> "pending", tripErr |-> NoError, rows |-> <<>>,
       status |-> "awaiting", value |-> Undefined, err |-> NoError]

\* the await resumes with the result: the function returns
OnFulfilled(c, rows) ==
  [c EXCEPT !.trip = "ok", !.rows = rows, !.status = "fulfilled",
            !.value = ReturnValue(c.returns, rows)]

\* a faulty query function: it catches the failure and returns no rows
OnRejectedSwallowed(c, e) ==
  [c EXCEPT !.trip = "failed", !.tripErr = e, !.status = "fulfilled",
            !.value = Array(<<>>)]

\* the await throws: the function has no try/catch and rejects with the failure
OnRejected(c, e) ==
  [c EXCEPT !.trip = "failed", !.tripErr = e, !.status = "rejected", !.err = e]

\* console.log(rows[0]) of the update and delete functions
Logged(c, rows) ==
  IF c.logs THEN <<[label |-> "", value |-> First(rows)]>> ELSE <<>>

InFlight == {i \in 1..Len(calls) : calls[i].trip = "pending"}

----------------------------------------------------------------------------
(* The round trip of a submitted statement *)

Accepted(c) == BindingsMatch(c.sql, c.bindings) /\ ColumnsExist(c.sql, schema)

RoundTripOk(i) ==
  /\ calls[i].trip = "pending"
  /\ open
  /\ Accepted(calls[i])
  /\ LET c == calls[i]
         r == Execute(Bind(c.sql, c.bindings), db, schema, nextId)
     IN  /\ db' = r.db
         /\ nextId' = r.nextId
         /\ calls' = [calls EXCEPT ![i] = OnFulfilled(c, r.rows)]
         /\ console' = console \o Logged(c, r.rows)
  /\ UNCHANGED <<version, schema, open, destroyCalls, pc, awaiting, locals,
                 mainStatus, mainErr>>

\* the statement is refused: a wrong number of bindings, or a column the
\* table does not have
RoundTripSqlError(i) ==
  /\ calls[i].trip = "pending"
  /\ open
  /\ ~Accepted(calls[i])
  /\ calls' = [calls EXCEPT ![i] =
                 OnRejected(@, IF BindingsMatch(@.sql, @.bindings)
                               THEN UndefinedColumn ELSE BindingMismatch)]
  /\ UNCHANGED <<version, schema, db, nextId, open, destroyCalls, pc, awaiting,
                 locals, console, mainStatus, mainErr>>

\* the round trip fails for a reason of its own
RoundTripFail(i) ==
  /\ calls[i].trip = "pending"
  /\ \E e \in (IF open THEN NetErrors ELSE {PoolDestroyed}) :
       calls' = [calls EXCEPT ![i] = OnRejected(@, e)]
  /\ UNCHANGED <<version, schema, db, nextId, open, destroyCalls, pc, awaiting,
                 locals, console, mainStatus, mainErr>>

Resolve == \E i \in 1..Len(calls) : RoundTripOk(i)
Refuse == \E i \in 1..Len(calls) : RoundTripSqlError(i)
Fail == \E i \in 1..Len(calls) : RoundTripFail(i)

----------------------------------------------------------------------------
(* main *)

CallStmt(local, fn, args) == [op |-> "call", local |-> local, fn |-> fn, args |-> args]
LogStmt(label, local) == [op |-> "log", label |-> label, local |-> local]
DestroyStmt == [op |-> "destroy"]

Program(v) ==
  IF v = "simple"
  THEN <<CallStmt("pets", "getPets", <<>>),
         CallStmt("people", "getPeople", <<>>),
         CallStmt("annsDogs", "getPetsByOwnerNameAndType", <<"Ann Duong", "dog">>),
         LogStmt("all pets:", "pets"),
         LogStmt("all people:", "people"),
         LogStmt("anns dogs:", "annsDogs"),
         DestroyStmt>>
  ELSE <<CallStmt("pets", "getPets", <<>>),
         CallStmt("people", "getPeople", <<>>),
         CallStmt("annsDogs", "getPetsByOwnerNameAndType", <<"Ann Duong", "dog">>),
         CallStmt("JamesBaldwinBooks", "getBooksByAuthor", <<"James", "Baldwin">>),
         CallStmt("annsProducts", "getProductsBoughtByCustomer", <<"Ann">>),
         LogStmt("all pets:", "pets"),
         LogStmt("all people:", "people"),
         LogStmt("anns dogs:", "annsDogs"),
         LogStmt("James Baldwin Books:", "JamesBaldwinBooks"),
         LogStmt("anns products:", "annsProducts"),
         DestroyStmt>>

Running == mainStatus = "running" /\ awaiting = 0 /\ pc \in 1..Len(Program(version))

\* const x = await f(...): f runs up to its own await
MainCall ==
  /\ Running
  /\ Program(version)[pc].op = "call"
  /\ calls' = Append(calls, NewCall(Program(version)[pc].fn, Program(version)[pc].args))
  /\ awaiting' = Len(calls) + 1
  /\ UNCHANGED <<version, schema, db, nextId, open, destroyCalls, pc, locals,
                 console, mainStatus, mainErr>>

\* a faulty main: the await is missing, main goes on with the pending promise
AwaitSkipped(c) == TRUE

\* await: main resumes once the promise of the invocation has settled
AwaitSettled(c) == c.status # "awaiting"

MainResume ==
  /\ mainStatus = "running"
  /\ awaiting # 0
  /\ AwaitSettled(calls[awaiting])
  /\ IF calls[awaiting].status = "rejected"
     THEN /\ mainStatus' = "rejected"
          /\ mainErr' = calls[awaiting].err
          /\ UNCHANGED <<pc, locals>>
     ELSE /\ locals' = (Program(version)[pc].local :> calls[awaiting].value) @@ locals
          /\ pc' = pc + 1
          /\ UNCHANGED <<mainStatus, mainErr>>
  /\ awaiting' = 0
  /\ UNCHANGED <<version, schema, db, nextId, open, destroyCalls, calls, console>>

MainLog ==
  /\ Running
  /\ Program(version)[pc].op = "log"
  /\ console' = Append(console, [label |-> Program(version)[pc].label,
                                 value |-> locals[Program(version)[pc].local]])
  /\ pc' = pc + 1
  /\ UNCHANGED <<version, schema, db, nextId, open, destroyCalls, calls, awaiting,
                 locals, mainStatus, mainErr>>

\* a faulty main: knex.destroy() does not wait for its place in main
MainDestroyAnytime ==
  /\ mainStatus = "running"
  /\ open
  /\ open' = FALSE
  /\ destroyCalls' = destroyCalls + 1
  /\ UNCHANGED <<version, schema, db, nextId, calls, pc, awaiting, locals, console,
                 mainStatus, mainErr>>

MainDestroy ==
  /\ Running
  /\ Program(version)[pc].op = "destroy"
  /\ open' = FALSE
  /\ destroyCalls' = destroyCalls + 1
  /\ pc' = pc + 1
  /\ UNCHANGED <<version, schema, db, nextId, calls, awaiting, locals, console,
                 mainStatus, mainErr>>

MainReturn ==
  /\ mainStatus = "running"
  /\ awaiting = 0
  /\ pc = Len(Program(version)) + 1
  /\ mainStatus' = "fulfilled"
  /\ UNCHANGED <<version, schema, db, nextId, open, destroyCalls, calls, pc,
                 awaiting, locals, console, mainErr>>

InitDb ==
  \E kind \in PetKindColumns, people \in PeopleTables :
    /\ schema = Schema(kind)
    /\ \E pets \in PetsTables(kind, people) :
         /\ db = Database(pets, people)
         /\ nextId = Len(pets) + 1

Init ==
  /\ version \in {"simple", "extended"}
  /\ InitDb
  /\ open = TRUE
  /\ destroyCalls = 0
  /\ calls = <<>>
  /\ pc = 1
  /\ awaiting = 0
  /\ locals = <<>>
  /\ console = <<>>
  /\ mainStatus = "running"
  /\ mainErr = NoError

Next ==
  \/ MainCall
  \/ MainResume
  \/ MainLog
  \/ MainDestroy
  \/ MainReturn
  \/ Resolve
  \/ Refuse
  \/ Fail

Spec == Init /\ [][Next]_vars

----------------------------------------------------------------------------
(* Any one function invoked with any arguments on any tables *)

ArgsOf(fn) ==
  CASE fn \in {"getPets", "getPeople"} -> {<<>>}
    [] fn = "getPetsByOwnerNameAndType" -> OwnerNames \X PetKinds
    [] fn = "getBooksByAuthor" -> FirstNames \X LastNames
    [] fn = "getProductsBoughtByCustomer" -> {<<n>> : n \in CustomerNames}
    [] fn = "createPet" -> PetNames \X PetKinds \X (1..2)
    [] fn = "updatePetNameByName" -> PetNames \X PetNames
    [] fn = "deletePetByName" -> {<<n>> : n \in PetNames}

Invoke ==
  /\ calls = <<>>
  /\ \E fn \in Functions : \E args \in ArgsOf(fn) : calls' = <<NewCall(fn, args)>>
  /\ UNCHANGED <<version, schema, db, nextId, open, destroyCalls, pc, awaiting,
                 locals, console, mainStatus, mainErr>>

InitCalls ==
  /\ version = "none"
  /\ InitDb
  /\ open = TRUE
  /\ destroyCalls = 0
  /\ calls = <<>>
  /\ pc = 0
  /\ awaiting = 0
  /\ locals = <<>>
  /\ console = <<>>
  /\ mainStatus = "idle"
  /\ mainErr = NoError

NextCalls == Invoke \/ Resolve \/ Refuse \/ Fail

SpecCalls == InitCalls /\ [][NextCalls]_vars

----------------------------------------------------------------------------
(* Properties *)

SameRows(a, b) == Len(a) = Len(b) /\ Range(a) = Range(b)

Settled(i) == calls[i].status # "awaiting"

\* the order of the invocations in the source of main
SourceOrder ==
  <<"getPets", "getPeople", "getPetsByOwnerNameAndType", "getBooksByAuthor",
    "getProductsBoughtByCustomer">>

QueriesOf(v) == IF v = "simple" THEN SubSeq(SourceOrder, 1, 3) ELSE SourceOrder

\* C1: main invokes the query functions strictly one after another in source
\* order; a query is submitted only after the round trip of the one before it
\* has completed, so at most one query is in flight at any moment.
C1_OneQueryAtATime ==
  /\ Cardinality(InFlight) <= 1
  /\ Len(calls) <= Len(QueriesOf(version))
  /\ \A i \in 1..Len(calls) :
       /\ calls[i].fn = QueriesOf(version)[i]
       /\ i < Len(calls) => calls[i].trip # "pending"

C1_Witness == Len(calls) = 5 /\ InFlight = {5}

\* C2: in every run of main, also one in which a query fails, the connection
\* handle is released exactly once by the end of the run.
C2_ReleasedInEveryRun ==
  mainStatus \in {"fulfilled", "rejected"} => destroyCalls = 1 /\ ~open

\* C3: when the round trip of a query fails, the function that issued it
\* rejects with that same failure, having submitted the statement once and
\* returning no rows; main invokes no later function and logs nothing.
C3_FailurePropagates ==
  \A i \in 1..Len(calls) :
    /\ calls[i].submits = 1
    /\ calls[i].trip = "failed" =>
         /\ calls[i].status = "rejected"
         /\ calls[i].err = calls[i].tripErr
         /\ calls[i].value = Undefined
         /\ calls[i].rows = <<>>
         /\ i = Len(calls)
         /\ console = <<>>
         /\ mainStatus # "fulfilled"
         /\ awaiting = 0 => mainStatus = "rejected" /\ mainErr = calls[i].tripErr

C3_Witness ==
  /\ Len(calls) >= 2
  /\ calls[Len(calls)].trip = "failed"
  /\ mainStatus = "rejected"

\* C4: getPets() returns every row of the pets table and no other row, and
\* leaves the table unchanged.
C4_GetPetsReturnsPets ==
  [][\A i \in 1..Len(calls) :
       (calls[i].fn = "getPets" /\ ~Settled(i) /\ calls'[i].status = "fulfilled") =>
         /\ calls'[i].value.type = "array"
         /\ SameRows(calls'[i].value.v, db.pets)
         /\ db' = db]_vars

C4_Witness ==
  \E i \in 1..Len(calls) :
    /\ calls[i].fn = "getPets"
    /\ calls[i].status = "fulfilled"
    /\ Len(calls[i].value.v) >= 2

\* the pets of kind type whose owner is called ownerName
PetsOf(ownerName, type) ==
  {p \in Range(db.pets) :
     /\ p["type"] = type
     /\ \E q \in Range(db.people) : q.id = p.owner_id /\ q.name = ownerName}

\* C5: getPetsByOwnerNameAndType(ownerName, type) returns only the name and
\* id of pets whose owner's name is ownerName and whose type is type, and one
\* row for every such pet.
C5_PetsByOwnerNameAndType ==
  \A i \in 1..Len(calls) :
    (calls[i].fn = "getPetsByOwnerNameAndType" /\ calls[i].status = "fulfilled") =>
      LET expected == PetsOf(calls[i].args[1], calls[i].args[2])
      IN  /\ calls[i].value.type = "array"
          /\ Range(calls[i].value.v) = {[name |-> p.name, id |-> p.id] : p \in expected}
          /\ Len(calls[i].value.v) = Cardinality(expected)

C5_Witness ==
  \E i \in 1..Len(calls) :
    /\ calls[i].fn = "getPetsByOwnerNameAndType"
    /\ calls[i].status = "fulfilled"
    /\ Len(calls[i].value.v) >= 1
    /\ Len(calls[i].value.v) < Len(db.pets)

\* the value positions of a statement, left to right, each with its clause,
\* its column and the value it holds
Slot(clause, col, val) == [clause |-> clause, col |-> col, v |-> val]

CondSlots(clause, conds) ==
  [i \in 1..Len(conds) |-> Slot(clause, conds[i].col, conds[i].val.v)]

SlotsOf(sql) ==
  CASE sql.cmd = "SELECT" -> CondSlots("WHERE", sql.where)
    [] sql.cmd = "INSERT" ->
         [i \in 1..Len(sql.values) |->
            Slot("VALUES", Col(sql.into, sql.columns[i]), sql.values[i].v)]
    [] sql.cmd = "UPDATE" -> CondSlots("SET", sql.set) \o CondSlots("WHERE", sql.where)
    [] sql.cmd = "DELETE" -> CondSlots("WHERE", sql.where)

\* the column each argument of a function is meant for
Designated(fn, args) ==
  CASE fn \in {"getPets", "getPeople"} -> <<>>
    [] fn = "getPetsByOwnerNameAndType" ->
         <<Slot("WHERE", Col("people", "name"), args[1]),
           Slot("WHERE", Col("pets", "type"), args[2])>>
    [] fn = "getBooksByAuthor" ->
         <<Slot("WHERE", Col("authors", "first_name"), args[1]),
           Slot("WHERE", Col("authors", "last_name"), args[2])>>
    [] fn = "getProductsBoughtByCustomer" ->
         <<Slot("WHERE", Col("customers", "name"), args[1])>>
    [] fn = "createPet" ->
         <<Slot("VALUES", Col("pets", "name"), args[1]),
           Slot("VALUES", Col("pets", "species"), args[2]),
           Slot("VALUES", Col("pets", "owner_id"), args[3])>>
    [] fn = "updatePetNameByName" ->
         <<Slot("SET", Col("pets", "name"), args[2]),
           Slot("WHERE", Col("pets", "name"), args[1])>>
    [] fn = "deletePetByName" ->
         <<Slot("WHERE", Col("pets", "name"), args[1])>>

\* C6: every parameterized function passes as many values as its text has
\* placeholders, the i-th placeholder is bound to the i-th value, each
\* argument reaches the column it is named for, and the text itself holds
\* placeholders only.
C6_BindingsReachTheirColumns ==
  \A i \in 1..Len(calls) :
    /\ \A k \in 1..Len(SlotVals(calls[i].sql)) : SlotVals(calls[i].sql)[k].ph
    /\ PlaceholderCount(calls[i].sql) = Len(calls[i].bindings)
    /\ \A k \in 1..Len(calls[i].bindings) :
         SlotVals(Bind(calls[i].sql, calls[i].bindings))[k] = Lit(calls[i].bindings[k])
    /\ SlotsOf(Bind(calls[i].sql, calls[i].bindings)) = Designated(calls[i].fn, calls[i].args)

C6_Witness ==
  \E i \in 1..Len(calls) :
    /\ calls[i].fn = "updatePetNameByName"
    /\ calls[i].args[1] # calls[i].args[2]
    /\ calls[i].status = "fulfilled"
    /\ calls[i].rows # <<>>

Renamed(row, oldName, newName) ==
  IF row.name = oldName THEN [row EXCEPT !["name"] = newName] ELSE row

\* invocation i is an updatePetNameByName whose round trip succeeds in this step
UpdateReturns(i) ==
  /\ calls[i].fn = "updatePetNameByName"
  /\ ~Settled(i)
  /\ calls'[i].status = "fulfilled"

\* the step renames exactly the rows called oldName, leaves every other row
\* and table as it was, and RETURNING * hands the renamed rows to the function
RenamesTargets(i) ==
  /\ Len(db'.pets) = Len(db.pets)
  /\ \A k \in 1..Len(db.pets) :
       db'.pets[k] = Renamed(db.pets[k], calls[i].args[1], calls[i].args[2])
  /\ \A t \in DOMAIN db : t # "pets" => db'[t] = db[t]
  /\ Range(calls'[i].rows) =
       {Renamed(r, calls[i].args[1], calls[i].args[2]) :
          r \in {p \in Range(db.pets) : p.name = calls[i].args[1]}}

\* the part of C8 about the tables and the RETURNING clause
C8_UpdateRenamesTargets ==
  [][\A i \in 1..Len(calls) : UpdateReturns(i) => RenamesTargets(i)]_vars

\* C8: updatePetNameByName(oldName, newName) changes exactly the rows called
\* oldName, leaves every other row and column unchanged, and returns the
\* changed rows.
C8_UpdateReturnsChangedRows ==
  [][\A i \in 1..Len(calls) :
       UpdateReturns(i) =>
         /\ RenamesTargets(i)
         /\ calls'[i].rows # <<>> =>
              /\ calls'[i].value.type = "array"
              /\ calls'[i].value.v = calls'[i].rows]_vars

\* C9: getPeople() returns every row of the people table, so what main logs
\* as 'all people:' is the content of the people table.
C9_AllPeopleIsPeople ==
  /\ \A i \in 1..Len(calls) :
       (calls[i].fn = "getPeople" /\ calls[i].status = "fulfilled") =>
         SameRows(calls[i].value.v, db.people)
  /\ \A k \in 1..Len(console) :
       console[k].label = "all people:" => SameRows(console[k].value.v, db.people)

\* C10: knex.destroy is called at most once, only after the round trip of
\* every query function has completed and every result has been logged, with
\* no query in flight; no query is submitted after it.
C10_ReleasedLast ==
  /\ destroyCalls <= 1
  /\ open <=> destroyCalls = 0
  /\ ~open =>
       /\ InFlight = {}
       /\ awaiting = 0
       /\ Len(calls) = Len(QueriesOf(version))
       /\ \A i \in 1..Len(calls) : calls[i].status = "fulfilled" /\ calls[i].submits = 1
       /\ Len(console) = Len(QueriesOf(version))

C10_Witness == ~open /\ mainStatus = "fulfilled" /\ version = "extended"

====
